---- MODULE Spec2Model ----
(***************************************************************************)
(* Verification model of the nexus-backend services:                       *)
(*   - network-service  utils/hmac.ts      signed-request verifier         *)
(*   - event-service    routes/events      event registration              *)
(*   - projects-service routes/projects    project applications            *)
(*   - auth-service     routes/auth        refresh token rotation          *)
(*   - messaging-service SocketService     presence tracking               *)
(***************************************************************************)
EXTENDS Integers, Sequences, FiniteSets, TLC

(***************************************************************************)
(* Bounds of the model                                                     *)
(***************************************************************************)
\* number of validity windows the clock may run through
MaxEpoch == 1
\* epoch second at which the process starts
StartTime == 1000
\* request handlers that run concurrently in one service
MaxHandlers == 2
\* requests a service receives in a run
MaxRequests == 3
\* largest capacity of an event
MaxCapacity == 2
\* largest maxStudents of a project
MaxStudents == 2
\* sockets that connect to the messaging service in a run
MaxSockets == 3

(***************************************************************************)
(* utils/hmac.ts                                                           *)
(***************************************************************************)
WINDOW_SECONDS == 5 * 60

\* length of a hex encoded sha256 digest
HexDigestLen == 64

\* the clock values Date.now()/1000 may take: around every window boundary
Instants ==
  { StartTime + k * WINDOW_SECONDS + d : k \in 0..MaxEpoch, d \in {0, 1} }

\* JavaScript values a request body takes, named by their source text
Bodies == {"undefined", "null", "{}", "0", "false", "''", "{a:1}"}

\* JS truthiness (the test of `body ? ... : ...`)
Truthy(v) == v \notin {"undefined", "null", "0", "false", "''"}

\* `v ?? d`
NullishCoalesce(v, d) == IF v \in {"undefined", "null"} THEN d ELSE v

\* JSON.stringify
JSONstringify(v) ==
  CASE v = "{}"     -> "{}"
    [] v = "{a:1}"  -> "{\"a\":1}"
    [] v = "0"      -> "0"
    [] v = "false"  -> "false"
    [] v = "''"     -> "\"\""
    [] v = "null"   -> "null"
    [] OTHER        -> "undefined"

\* String.prototype.toUpperCase on the method names in use
ToUpperCase(m) ==
  CASE m = "post" -> "POST"
    [] m = "get"  -> "GET"
    [] OTHER      -> m

\* x-timestamp header values: absent, a non numeric text, or decimal seconds
NoTs      == [kind |-> "absent", n |-> 0]
TextTs    == [kind |-> "text", n |-> 0]
NumTs(n)  == [kind |-> "num", n |-> n]

\* the canonical payload `${METHOD}:${path}:${timestamp}:${bodyStr}`
buildPayload(method, path, timestamp, body) ==
  LET bodyStr == IF Truthy(body) THEN JSONstringify(body) ELSE ""
  IN  <<ToUpperCase(method), path, timestamp, bodyStr>>

\* HMAC-SHA256 hex digest, taken as collision free: the digest of (secret,
\* payload) is named by the pair; alt names a damaged copy of the digest
\* ("flip": one character changed, "trunc": one character dropped)
sign(secretKey, payload) == [key |-> secretKey, payload |-> payload, alt |-> "none"]

NoSig == [key |-> "", payload |-> <<>>, alt |-> "absent"]
Damage(sig, how) == [sig EXCEPT !.alt = how]

\* Buffer.from(sig).length
ByteLength(sig) ==
  CASE sig.alt = "absent" -> 0
    [] sig.alt = "trunc"  -> HexDigestLen - 1
    [] OTHER              -> HexDigestLen

\* outcomes of a call
Accepted == [thrown |-> FALSE, statusCode |-> 0, message |-> ""]
Err(code, msg) == [thrown |-> TRUE, statusCode |-> code, message |-> msg]
\* crypto.timingSafeEqual on buffers of different length: a RangeError
\* without statusCode
RangeError == [thrown |-> TRUE, statusCode |-> 0, message |-> "RangeError"]

Abs(x) == IF x < 0 THEN -x ELSE x

\* purge(): drop the entries with exp <= now
purgeEarly(cache, t) ==
  [s \in {x \in DOMAIN cache : cache[x] > t + 1} |-> cache[s]]

purge(cache, t) ==
  [s \in {x \in DOMAIN cache : cache[x] > t} |-> cache[s]]

\* seen.set(sig, exp)
MapSetNow(cache, sig, exp) ==
  [s \in DOMAIN cache \cup {sig} |-> IF s = sig THEN exp - WINDOW_SECONDS ELSE cache[s]]

MapSet(cache, sig, exp) ==
  [s \in DOMAIN cache \cup {sig} |-> IF s = sig THEN exp ELSE cache[s]]

\* the timestamp test of line 39: !Number.isFinite(t) || |now - t| > WINDOW
TsExpiredOffByOne(ts, t) ==
  ts.kind # "num" \/ Abs(t - ts.n) >= WINDOW_SECONDS

TsExpired(ts, t) ==
  ts.kind # "num" \/ Abs(t - ts.n) > WINDOW_SECONDS

\* verifySignedRequest(req, secret) at clock value t with replay cache
\* `cache`: the outcome and the cache it leaves
verifySignedRequestDigestFirst(req, secretArg, t, cache) ==
  IF secretArg = ""
  THEN [out |-> Err(500, "Server HMAC not configured"), seen |-> cache]
  ELSE IF req.ts.kind = "absent" \/ req.sig.alt = "absent"
  THEN [out |-> Err(401, "Missing signature headers"), seen |-> cache]
  ELSE IF TsExpired(req.ts, t)
  THEN [out |-> Err(401, "Signature expired"), seen |-> cache]
  ELSE
    LET purged   == purge(cache, t)
        payload  == buildPayload(req.method, req.url, req.ts,
                                 NullishCoalesce(req.body, "{}"))
        expected == sign(secretArg, payload)
    IN  IF ByteLength(req.sig) # ByteLength(expected)
        THEN [out |-> RangeError, seen |-> purged]
        ELSE IF req.sig # expected
        THEN [out |-> Err(401, "Invalid signature"), seen |-> purged]
        ELSE IF req.sig \in DOMAIN purged /\ purged[req.sig] > t
        THEN [out |-> Err(401, "Replay detected"), seen |-> purged]
        ELSE [out |-> Accepted,
              seen |-> MapSet(purged, req.sig, t + WINDOW_SECONDS)]

verifySignedRequest(req, secretArg, t, cache) ==
  IF secretArg = ""
  THEN [out |-> Err(500, "Server HMAC not configured"), seen |-> cache]
  ELSE IF req.ts.kind = "absent" \/ req.sig.alt = "absent"
  THEN [out |-> Err(401, "Missing signature headers"), seen |-> cache]
  ELSE IF TsExpired(req.ts, t)
  THEN [out |-> Err(401, "Signature expired"), seen |-> cache]
  ELSE
    LET purged   == purge(cache, t)
        payload  == buildPayload(req.method, req.url, req.ts,
                                 NullishCoalesce(req.body, "{}"))
        expected == sign(secretArg, payload)
    IN  IF req.sig \in DOMAIN purged /\ purged[req.sig] > t
        THEN [out |-> Err(401, "Replay detected"), seen |-> purged]
        ELSE IF ByteLength(req.sig) # ByteLength(expected)
        THEN [out |-> RangeError, seen |-> purged]
        ELSE IF req.sig # expected
        THEN [out |-> Err(401, "Invalid signature"), seen |-> purged]
        ELSE [out |-> Accepted,
              seen |-> MapSet(purged, req.sig, t + WINDOW_SECONDS)]

(***************************************************************************)
(* The signer and the requests of a run                                    *)
(***************************************************************************)
\* the internal routes guarded by the verifier, with the method as the
\* signer writes it
Routes ==
  { [method |-> "post", url |-> "/internal/ads"],
    [method |-> "GET",  url |-> "/internal/ads/a1/stats"] }

Secrets == {"", "k1"}
WrongKey == "k2"

\* the messages a signer may have signed
SignedMessages ==
  { [method |-> r.method, url |-> r.url, ts |-> NumTs(n), body |-> b] :
      r \in Routes, n \in Instants, b \in Bodies }

\* the signature the holder of key k computes for message m
SignatureOf(k, m) == sign(k, buildPayload(m.method, m.url, m.ts, m.body))

\* the requests that carry (a possibly modified copy of) the signed message m:
\* the HTTP layer delivers the method in upper case
RequestsOf(m) ==
  { [method |-> ToUpperCase(m.method), url |-> m.url, ts |-> ts, body |-> b, sig |-> sig] :
      ts \in {NoTs, TextTs, m.ts},
      b \in Bodies,
      sig \in { NoSig, SignatureOf("k1", m), SignatureOf(WrongKey, m),
                Damage(SignatureOf("k1", m), "flip"),
                Damage(SignatureOf("k1", m), "trunc") } }

\* the request that carries the signed message m unmodified
FaithfulRequest(m) ==
  [method |-> ToUpperCase(m.method), url |-> m.url, ts |-> m.ts, body |-> m.body,
   sig |-> SignatureOf("k1", m)]

\* the requests of a long run: the signed message, with its headers dropped,
\* its body replaced or its signature damaged
RunRequestsOf(m) ==
  { r \in RequestsOf(m) :
      /\ r.ts \in {NoTs, m.ts}
      /\ r.body \in {m.body, "{}", "0"}
      /\ r.sig \in {NoSig, SignatureOf("k1", m), Damage(SignatureOf("k1", m), "flip")} }

NoRequest == [method |-> "", url |-> "", ts |-> NoTs, body |-> "undefined", sig |-> NoSig]
NoCall == [req |-> NoRequest, at |-> 0, out |-> Accepted, before |-> <<>>]

VARIABLES
  clock,     \* Math.floor(Date.now() / 1000)
  secret,    \* env.ADVANCEMENT_HMAC_SECRET
  seen,      \* the replay cache: signature -> expiresAt
  orig,      \* the message the signer signed
  last,      \* the last call of verifySignedRequest: request, time, outcome,
             \* the cache before the call
  accepts    \* accepted request -> number of times it was accepted

VARIABLES
  event,     \* the Event row: collegeId, moderationStatus, capacity,
             \* visibleToAllDepts, departments
  regs,      \* committed EventRegistration rows of the event: userId -> number of rows
  hs,        \* event-service request handlers in flight
  started    \* requests received so far

VARIABLES
  project,   \* the Project row
  apps,      \* AppliedProject rows: studentId -> the statuses of the student's rows
  ps,        \* projects-service request handlers in flight
  pstarted   \* requests received so far

VARIABLES
  vt         \* calls of verifySignedRequest in flight on parallel threads

VARIABLES
  tokens,    \* the SecurityToken rows of type REFRESH_TOKEN
  rs,        \* auth-service request handlers in flight
  rstarted   \* requests received so far

VARIABLES
  sockets,         \* the sockets of the run: not yet connected, open or closed
  connectedUsers,  \* SocketService.connectedUsers: socketId -> userId
  userSockets,     \* SocketService.userSockets: userId -> set of socketIds
  emitted          \* the presence events broadcast so far

hmacVars == <<clock, secret, seen, orig, last, accepts>>
authVars == <<tokens, rs, rstarted>>
socketVars == <<sockets, connectedUsers, userSockets, emitted>>
restVars == <<vt, tokens, rs, rstarted, sockets, connectedUsers, userSockets, emitted>>
eventVars == <<event, regs, hs, started>>
projectVars == <<project, apps, ps, pstarted>>

vars == <<clock, secret, seen, orig, last, accepts, event, regs, hs, started,
          project, apps, ps, pstarted, vt, tokens, rs, rstarted,
          sockets, connectedUsers, userSockets, emitted>>

(***************************************************************************)
(* event-service: routes/events.routes.ts, registration                    *)
(***************************************************************************)
Handlers == 1..MaxHandlers
Users == {"u1", "u2", "u3"}
Colleges == {"c1", "c2"}
ModerationStatus == {"PENDING_REVIEW", "APPROVED", "REJECTED"}

\* getUserScope(req, payload).collegeId and .department
UserCollege(u) == "c1"
UserDepartment(u) == "d1"

\* the visibility rule GET /v1/events/:id applies to a student (line 165)
EventVisibleTo(ev, u) ==
  ev.visibleToAllDepts \/ UserDepartment(u) \in ev.departments

\* Event.capacity: null (the empty sequence) or a positive integer <<c>>
Capacities == {<<>>} \cup { <<c>> : c \in 1..MaxCapacity }
TypeofNumber(capacity) == Len(capacity) = 1

\* an approved event of college c1 open to all departments, authored by u1;
\* exists is FALSE once the row is deleted (and for an id that names no row)
OpenEvent(capacity) ==
  [collegeId |-> "c1", moderationStatus |-> "APPROVED", capacity |-> capacity,
   visibleToAllDepts |-> TRUE, departments |-> {}, authorId |-> "u1",
   title |-> "t0", exists |-> TRUE]

\* prisma.event.findFirst({ where: { id, collegeId: scope.collegeId } })
\* returns a row
EventInScopeAnyCollege(ev, u) == ev.exists

EventInScope(ev, u) == ev.exists /\ ev.collegeId = UserCollege(u)

\* the events of a run: every college, moderation status and capacity on an
\* event open to all departments, and the approved events restricted to
\* department d2
Events ==
  { [OpenEvent(c) EXCEPT !.collegeId = col, !.moderationStatus = m] :
      col \in Colleges, m \in ModerationStatus, c \in Capacities }
  \cup { [OpenEvent(c) EXCEPT !.visibleToAllDepts = FALSE, !.departments = {"d2"}] :
           c \in Capacities }

\* the isolation level of the registration transaction
IsolationLevelDefault == "ReadCommitted"

IsolationLevel == "Serializable"

\* reply.code(status).send({ message })
Reply(status, message) == [status |-> status, message |-> message]
NoReply == Reply(0, "")

\* an error thrown out of the handler: Fastify's default error handler
\* answers 500
Unhandled(code) == Reply(500, code)

\* tx.eventRegistration.count({ where: { eventId } }): the committed rows
RECURSIVE SumOver(_, _)
SumOver(f, S) ==
  IF S = {} THEN 0
  ELSE LET x == CHOOSE y \in S : TRUE IN f[x] + SumOver(f, S \ {x})

RegistrationCount(rows) == SumOver(rows, DOMAIN rows)

\* the capacity test of line 359
IsFull(regCount, capacity) == regCount >= capacity

\* a request body without the fields the model follows
NoBody == [title |-> <<>>, capacity |-> <<>>, action |-> ""]

IdleHandler ==
  [op |-> "none", pc |-> "idle", user |-> "", ev |-> [capacity |-> <<>>],
   had |-> FALSE, didCount |-> FALSE, conflict |-> FALSE, txError |-> "",
   body |-> NoBody, res |-> NoReply]

Done(h, reply) == [hs EXCEPT ![h].pc = "done", ![h].res = reply]

\* a request is served by a handler that has replied, or by the first
\* handler that never ran
FirstFree(pool, h) ==
  \/ pool[h].pc = "done"
  \/ pool[h].pc = "idle" /\ \A g \in Handlers : g < h => pool[g].pc # "idle"

\* a committed row with the same unique key (eventId, userId) exists
DuplicateKeyNever(rows, u) == FALSE

DuplicateKey(rows, u) == rows[u] > 0

\* another transaction holds an uncommitted row with the same unique key
\* (eventId, userId): the insert waits for it to end
BlockedOnKey(h) ==
  \E g \in Handlers \ {h} : hs[g].pc = "inserted" /\ hs[g].user = hs[h].user

\* POST /v1/events/:id/register, lines 348-354: the event is read and the
\* preconditions are checked
RegisterFind(h, u) ==
  /\ FirstFree(hs, h)
  /\ started < MaxRequests
  /\ started' = started + 1
  /\ LET me == [IdleHandler EXCEPT !.op = "register", !.user = u,
                                   !.had = (regs[u] > 0)]
     IN  hs' = [hs EXCEPT ![h] =
           IF ~EventInScope(event, u)
           THEN [me EXCEPT !.pc = "done", !.res = Reply(404, "Not found")]
           ELSE IF event.moderationStatus # "APPROVED"
           THEN [me EXCEPT !.pc = "done",
                           !.res = Reply(400, "Event not open for registration")]
           ELSE [me EXCEPT !.pc = "tx", !.ev = [capacity |-> event.capacity]]]
  /\ UNCHANGED <<event, regs, hmacVars, projectVars, restVars>>

\* lines 356-360: the transaction begins; with a numeric capacity the rows
\* are counted, and a full event ends the transaction with { full: true }
RegisterCount(h) ==
  /\ hs[h].pc = "tx"
  /\ IF TypeofNumber(hs[h].ev.capacity)
     THEN LET regCount == RegistrationCount(regs)
          IN  IF IsFull(regCount, hs[h].ev.capacity[1])
              THEN hs' = Done(h, Reply(400, "Event is full"))
              ELSE hs' = [hs EXCEPT ![h].pc = "counted", ![h].didCount = TRUE]
     ELSE hs' = [hs EXCEPT ![h].pc = "counted"]
  /\ UNCHANGED <<event, regs, started, hmacVars, projectVars, restVars>>

\* lines 361-367: the row is inserted; a committed row with the same
\* (eventId, userId) raises P2002, answered { already: true }; when a
\* concurrent serializable transaction committed it after this one's
\* snapshot the database may report the serialization failure instead; the
\* foreign key on eventId raises P2003 when the event row was deleted
RegisterCreate(h) ==
  /\ hs[h].pc = "counted"
  /\ ~BlockedOnKey(h)
  /\ IF ~event.exists
     THEN hs' = [Done(h, Unhandled("P2003")) EXCEPT ![h].txError = "P2003"]
     ELSE IF DuplicateKey(regs, hs[h].user)
     THEN \/ hs' = [Done(h, Reply(409, "Already registered")) EXCEPT ![h].txError = "P2002"]
          \/ /\ IsolationLevel = "Serializable" /\ hs[h].didCount /\ hs[h].conflict
             /\ hs' = [Done(h, Unhandled("P2034")) EXCEPT ![h].txError = "P2034"]
     ELSE hs' = [hs EXCEPT ![h].pc = "inserted"]
  /\ UNCHANGED <<event, regs, started, hmacVars, projectVars, restVars>>

\* line 368: the transaction commits at isolation level Serializable: a
\* transaction that counted the rows and then lost the race against a
\* concurrent committed insert is aborted with a serialization failure
\* (P2034), which the handler does not catch; lines 370-372 otherwise
RegisterCommit(h) ==
  /\ hs[h].pc = "inserted"
  /\ IF IsolationLevel = "Serializable" /\ hs[h].didCount /\ hs[h].conflict
     THEN /\ hs' = [Done(h, Unhandled("P2034")) EXCEPT ![h].txError = "P2034"]
          /\ UNCHANGED regs
     ELSE /\ regs' = [regs EXCEPT ![hs[h].user] = @ + 1]
          /\ hs' = [g \in Handlers |->
                      IF g = h
                      THEN [hs[h] EXCEPT !.pc = "done", !.res = Reply(200, "registration")]
                      ELSE IF hs[g].pc \in {"counted", "inserted"} /\ hs[g].didCount
                                /\ hs[h].didCount
                      THEN [hs[g] EXCEPT !.conflict = TRUE]
                      ELSE hs[g]]
  /\ UNCHANGED <<event, started, hmacVars, projectVars, restVars>>

\* DELETE /v1/events/:id/register, lines 379-384
UnregisterFind(h, u) ==
  /\ FirstFree(hs, h)
  /\ started < MaxRequests
  /\ started' = started + 1
  /\ LET me == [IdleHandler EXCEPT !.op = "unregister", !.user = u,
                                   !.had = (regs[u] > 0)]
     IN  hs' = [hs EXCEPT ![h] =
           IF ~EventInScope(event, u)
           THEN [me EXCEPT !.pc = "done", !.res = Reply(404, "Not found")]
           ELSE [me EXCEPT !.pc = "found"]]
  /\ UNCHANGED <<event, regs, hmacVars, projectVars, restVars>>

\* lines 386-387: deleteMany({ where: { eventId, userId } })
UnregisterDelete(h) ==
  /\ hs[h].pc = "found"
  /\ regs' = [regs EXCEPT ![hs[h].user] = 0]
  /\ hs' = Done(h, Reply(200, "success"))
  /\ UNCHANGED <<event, started, hmacVars, projectVars, restVars>>

\* the variables of the event service while another service is observed
EventsIdle ==
  /\ event = OpenEvent(<<>>)
  /\ regs = [u \in Users |-> 0]
  /\ hs = [h \in Handlers |-> IdleHandler]
  /\ started = 0

(***************************************************************************)
(* projects-service: routes/projects.routes.ts, applications               *)
(***************************************************************************)
Students == {"s1", "s2", "s3"}
Faculty == {"f1", "f2"}
ApplicationStatus == {"PENDING", "ACCEPTED", "REJECTED"}
ProjectModeration == {"PENDING_APPROVAL", "APPROVED", "REJECTED"}

Admins == {"a1"}
Guests == {"g1"}

\* payload.roles of the access token
RolesOf(u) ==
  IF u \in Faculty THEN {"FACULTY"}
  ELSE IF u \in Admins THEN {"DEPT_ADMIN"}
  ELSE IF u \in Guests THEN {}
  ELSE {"STUDENT"}
\* getUserScope(req, payload)
CallerCollege(u) == "c1"
CallerDepartment(u) == "d1"

\* requireRole(payload, roles) of middlewares/auth: lets the caller pass who
\* holds one of the roles
requireRole(u, roles) == RolesOf(u) \cap roles # {}

\* a project row with the id of the request exists in the caller's college
ProjectInScope(p, u) == p.exists /\ p.collegeId = CallerCollege(u)

\* the scope and ownership filter of the owner routes: the project is in the
\* caller's college and the caller is its author
OwnedByCollegeOnly(p, u) == ProjectInScope(p, u)

OwnedBy(p, u) == ProjectInScope(p, u) /\ p.authorId = u

\* a project open for applications of department d1 in college c1, authored
\* by f1
OpenProject(m) ==
  [collegeId |-> "c1", authorId |-> "f1", archived |-> FALSE,
   moderationStatus |-> "APPROVED", progressStatus |-> "OPEN",
   visibleToAllDepts |-> FALSE, departments |-> {"d1"}, deadline |-> "future",
   maxStudents |-> m, exists |-> TRUE]

\* the projects of a run: the open projects, and the projects that differ
\* from one in a single field
OpenProjects == { OpenProject(m) : m \in 1..MaxStudents }

Projects ==
  OpenProjects \cup
  { [OpenProject(1) EXCEPT !.collegeId = "c2"],
    [OpenProject(1) EXCEPT !.archived = TRUE],
    [OpenProject(1) EXCEPT !.moderationStatus = "PENDING_APPROVAL"],
    [OpenProject(1) EXCEPT !.progressStatus = "COMPLETED"],
    [OpenProject(1) EXCEPT !.departments = {"d2"}],
    [OpenProject(1) EXCEPT !.visibleToAllDepts = TRUE, !.departments = {}],
    [OpenProject(1) EXCEPT !.deadline = "none"],
    [OpenProject(1) EXCEPT !.deadline = "past"] }

\* the applications earlier requests left pending: of no student, of s1, of
\* s1 and s2, or of all three on an open project; of no student or of s1 on
\* the others
PendingOf(S) == [s \in Students |-> IF s \in S THEN <<"PENDING">> ELSE <<>>]
PendingApplications == { PendingOf(S) : S \in { {}, {"s1"}, {"s1", "s2"}, Students } }
PendingOfFirst == { PendingOf({}), PendingOf({"s1"}) }

\* project.deadline && new Date() > project.deadline
DeadlineNeverPassed(p) == FALSE

DeadlinePassed(p) == p.deadline = "past"

\* appliedProject.count({ where: { projectId, status: "ACCEPTED" } })
RECURSIVE CountStatus(_, _)
CountStatus(rows, st) ==
  IF rows = <<>> THEN 0
  ELSE (IF Head(rows) = st THEN 1 ELSE 0) + CountStatus(Tail(rows), st)

RECURSIVE AcceptedOver(_, _)
AcceptedOver(a, S) ==
  IF S = {} THEN 0
  ELSE LET x == CHOOSE y \in S : TRUE
       IN  CountStatus(a[x], "ACCEPTED") + AcceptedOver(a, S \ {x})

AcceptedCount(a) == AcceptedOver(a, DOMAIN a)

\* the unique constraint (projectId, studentId) of AppliedProject
UniqueViolationOff(a, student) == FALSE

UniqueViolation(a, student) == Len(a[student]) > 0

\* the capacity test of line 260
CapReachedOffByOne(acceptedCount, maxStudents) == acceptedCount > maxStudents

CapReached(acceptedCount, maxStudents) == acceptedCount >= maxStudents

IdleP ==
  [op |-> "none", pc |-> "idle", user |-> "", target |-> "", status |-> "",
   maxStudents |-> 0, data |-> <<>>, txError |-> "", res |-> NoReply]

PDone(h, reply) == [ps EXCEPT ![h].pc = "done", ![h].res = reply]

\* POST /v1/projects/:id/applications, lines 168-183: role, scope and the
\* preconditions of the project
ApplyFind(h, u) ==
  /\ FirstFree(ps, h)
  /\ pstarted < MaxRequests
  /\ pstarted' = pstarted + 1
  /\ LET me == [IdleP EXCEPT !.op = "apply", !.user = u]
         found == ProjectInScope(project, u) /\ ~project.archived
         reply(r) == [me EXCEPT !.pc = "done", !.res = r]
     IN  ps' = [ps EXCEPT ![h] =
           IF ~requireRole(u, {"STUDENT"})
           THEN reply(Reply(403, "Forbidden"))
           ELSE IF ~found
           THEN reply(Reply(404, "Project not found"))
           ELSE IF project.moderationStatus # "APPROVED"
           THEN reply(Reply(403, "Project not open for applications"))
           ELSE IF project.progressStatus = "COMPLETED"
           THEN reply(Reply(400, "Project already completed"))
           ELSE IF ~(project.visibleToAllDepts
                       \/ CallerDepartment(u) \in project.departments)
           THEN reply(Reply(403, "Not visible to your department"))
           ELSE IF DeadlinePassed(project)
           THEN reply(Reply(400, "Application deadline has passed"))
           ELSE [me EXCEPT !.pc = "checked"]]
  /\ UNCHANGED <<project, apps, hmacVars, eventVars, restVars>>

\* lines 184-187: findUnique on (projectId, studentId)
ApplyFindUnique(h) ==
  /\ ps[h].pc = "checked"
  /\ ps' = IF Len(apps[ps[h].user]) > 0
           THEN PDone(h, Reply(409, "Already applied"))
           ELSE [ps EXCEPT ![h].pc = "absent"]
  /\ UNCHANGED <<project, apps, pstarted, hmacVars, eventVars, restVars>>

\* lines 188-198: appliedProject.create; a row with the same (projectId,
\* studentId) makes the store raise P2002, which the handler does not catch
ApplyCreate(h) ==
  /\ ps[h].pc = "absent"
  /\ IF UniqueViolation(apps, ps[h].user)
     THEN /\ ps' = [PDone(h, Unhandled("P2002")) EXCEPT ![h].txError = "P2002"]
          /\ UNCHANGED apps
     ELSE /\ apps' = [apps EXCEPT ![ps[h].user] = Append(@, "PENDING")]
          /\ ps' = PDone(h, Reply(200, "application"))
  /\ UNCHANGED <<project, pstarted, hmacVars, eventVars, restVars>>

\* PUT /v1/applications/:id/status, lines 245-258: role, the application and
\* its project are read, ownership and the pending state are checked; the
\* application of student s has id s
DecideFind(h, u, s, st) ==
  /\ FirstFree(ps, h)
  /\ pstarted < MaxRequests
  /\ pstarted' = pstarted + 1
  /\ LET me == [IdleP EXCEPT !.op = "decide", !.user = u, !.target = s, !.status = st]
         reply(r) == [me EXCEPT !.pc = "done", !.res = r]
     IN  ps' = [ps EXCEPT ![h] =
           IF ~requireRole(u, {"FACULTY"})
           THEN reply(Reply(403, "Forbidden"))
           ELSE IF Len(apps[s]) = 0 \/ ~OwnedBy(project, u)
           THEN reply(Reply(404, "Application not found"))
           ELSE IF apps[s][1] # "PENDING"
           THEN reply(Reply(400, "Only pending applications can be updated"))
           ELSE [me EXCEPT !.pc = IF st = "ACCEPTED" THEN "count" ELSE "update",
                           !.maxStudents = project.maxStudents]]
  /\ UNCHANGED <<project, apps, hmacVars, eventVars, restVars>>

\* lines 259-262: the accepted applications of the project are counted
DecideCount(h) ==
  /\ ps[h].pc = "count"
  /\ ps' = IF CapReached(AcceptedCount(apps), ps[h].maxStudents)
           THEN PDone(h, Reply(400, "Project capacity reached"))
           ELSE [ps EXCEPT ![h].pc = "update"]
  /\ UNCHANGED <<project, apps, pstarted, hmacVars, eventVars, restVars>>

\* lines 264-265: appliedProject.update({ where: { id }, data: { status } })
DecideUpdate(h) ==
  /\ ps[h].pc = "update"
  /\ apps' = [apps EXCEPT ![ps[h].target][1] = ps[h].status]
  /\ ps' = PDone(h, Reply(200, "application"))
  /\ UNCHANGED <<project, pstarted, hmacVars, eventVars, restVars>>

\* the bodies of PUT /v1/projects/:id a run sends: one field of the project
\* and its new value
UpdateBodies ==
  { <<"maxStudents", MaxStudents>>, <<"progressStatus", "COMPLETED">> }

\* prisma.project.update({ where: { id }, data })
ProjectUpdate(p, data) ==
  IF data[1] = "maxStudents" THEN [p EXCEPT !.maxStudents = data[2]]
  ELSE [p EXCEPT !.progressStatus = data[2]]

\* PUT /v1/projects/:id, lines 137-143: role, then findFirst on id, college,
\* author and archivedAt: null
UpdateFind(h, u, data) ==
  /\ FirstFree(ps, h)
  /\ pstarted < MaxRequests
  /\ pstarted' = pstarted + 1
  /\ LET me == [IdleP EXCEPT !.op = "update", !.user = u, !.data = data]
         reply(r) == [me EXCEPT !.pc = "done", !.res = r]
     IN  ps' = [ps EXCEPT ![h] =
           IF ~requireRole(u, {"FACULTY"})
           THEN reply(Reply(403, "Forbidden"))
           ELSE IF ~OwnedBy(project, u) \/ project.archived
           THEN reply(Reply(404, "Not found"))
           ELSE [me EXCEPT !.pc = "write"]]
  /\ UNCHANGED <<project, apps, hmacVars, eventVars, restVars>>

\* lines 144-147: the fields of the body are written
UpdateWrite(h) ==
  /\ ps[h].pc = "write" /\ ps[h].op = "update"
  /\ project' = ProjectUpdate(project, ps[h].data)
  /\ ps' = PDone(h, Reply(200, "project"))
  /\ UNCHANGED <<apps, pstarted, hmacVars, eventVars, restVars>>

\* DELETE /v1/projects/:id, lines 154-159
DeleteFind(h, u) ==
  /\ FirstFree(ps, h)
  /\ pstarted < MaxRequests
  /\ pstarted' = pstarted + 1
  /\ LET me == [IdleP EXCEPT !.op = "delete", !.user = u]
         reply(r) == [me EXCEPT !.pc = "done", !.res = r]
     IN  ps' = [ps EXCEPT ![h] =
           IF ~requireRole(u, {"FACULTY"})
           THEN reply(Reply(403, "Forbidden"))
           ELSE IF ~OwnedBy(project, u) \/ project.archived
           THEN reply(Reply(404, "Not found"))
           ELSE [me EXCEPT !.pc = "write"]]
  /\ UNCHANGED <<project, apps, hmacVars, eventVars, restVars>>

\* lines 160-161: archivedAt is set
DeleteWrite(h) ==
  /\ ps[h].pc = "write" /\ ps[h].op = "delete"
  /\ project' = [project EXCEPT !.archived = TRUE]
  /\ ps' = PDone(h, Reply(200, "success"))
  /\ UNCHANGED <<apps, pstarted, hmacVars, eventVars, restVars>>

\* the status updates of a run: the author decides on any application, and
\* another faculty member and a student try to accept the application of s1
DecideRequests ==
  { [user |-> "f1", target |-> s, status |-> st] :
      s \in Students, st \in {"ACCEPTED", "REJECTED"} }
  \cup { [user |-> u, target |-> "s1", status |-> "ACCEPTED"] : u \in {"f2", "s1"} }

\* the variables of the projects service while another service is observed
ProjectsIdle ==
  /\ project = OpenProject(1)
  /\ apps = [s \in Students |-> <<>>]
  /\ ps = [h \in Handlers |-> IdleP]
  /\ pstarted = 0

(***************************************************************************)
(* event-service: routes/events.routes.ts, update, delete and moderation   *)
(***************************************************************************)
hasRole(u, role) == role \in RolesOf(u)

\* isStudent && isOwner && ev.moderationStatus === "PENDING_REVIEW"
canStudentEditAnyStatus(ev, u) == hasRole(u, "STUDENT") /\ ev.authorId = u

canStudentEdit(ev, u) ==
  hasRole(u, "STUDENT") /\ ev.authorId = u /\ ev.moderationStatus = "PENDING_REVIEW"

isPrivileged(u) ==
  hasRole(u, "FACULTY") \/ hasRole(u, "DEPT_ADMIN") \/ hasRole(u, "HEAD_ADMIN")

\* a body of PUT /v1/events/:id carries a new title or a new capacity; <<>>
\* is a field the body leaves undefined
\* prisma.event.update({ where: { id }, data: updateData })
EventUpdate(ev, body) ==
  [ev EXCEPT !.title = IF body.title # <<>> THEN body.title[1] ELSE @,
             !.capacity = IF body.capacity # <<>> THEN body.capacity ELSE @]

\* the row is read with the caller's college and the edit gate is applied:
\* lines 241-252 of PUT and 289-299 of DELETE
EditFind(h, u, op, body) ==
  /\ FirstFree(hs, h)
  /\ started < MaxRequests
  /\ started' = started + 1
  /\ LET me == [IdleHandler EXCEPT !.op = op, !.user = u, !.body = body]
     IN  hs' = [hs EXCEPT ![h] =
           IF ~EventInScope(event, u)
           THEN [me EXCEPT !.pc = "done", !.res = Reply(404, "Not found")]
           ELSE IF ~canStudentEdit(event, u) /\ ~isPrivileged(u)
           THEN [me EXCEPT !.pc = "done", !.res = Reply(403, "Forbidden")]
           ELSE [me EXCEPT !.pc = "allowed", !.ev = event]]
  /\ UNCHANGED <<event, regs, hmacVars, projectVars, restVars>>

\* PUT /v1/events/:id, lines 236-252
EventUpdateFind(h, u, body) == EditFind(h, u, "update", body)

\* lines 254-278: updateData is built and written by id; the update of a
\* row that is gone raises P2025
EventUpdateWrite(h) ==
  /\ hs[h].pc = "allowed" /\ hs[h].op = "update"
  /\ IF event.exists
     THEN /\ event' = EventUpdate(event, hs[h].body)
          /\ hs' = Done(h, Reply(200, "event"))
     ELSE /\ hs' = [Done(h, Unhandled("P2025")) EXCEPT ![h].txError = "P2025"]
          /\ UNCHANGED event
  /\ UNCHANGED <<regs, started, hmacVars, projectVars, restVars>>

\* DELETE /v1/events/:id, lines 285-299
EventDeleteFind(h, u) == EditFind(h, u, "delete", NoBody)

\* lines 301-302: the row is deleted by id.  The delete waits for the
\* transactions that inserted a registration of the event and have not
\* ended.  The schema is not part of the sources: the registrations of the
\* event either go with it (onDelete: Cascade) or make the delete fail with
\* P2003 (onDelete: Restrict)
EventDeleteWrite(h) ==
  /\ hs[h].pc = "allowed" /\ hs[h].op = "delete"
  /\ \A g \in Handlers : hs[g].pc # "inserted"
  /\ IF ~event.exists
     THEN /\ hs' = [Done(h, Unhandled("P2025")) EXCEPT ![h].txError = "P2025"]
          /\ UNCHANGED <<event, regs>>
     ELSE \/ /\ event' = [event EXCEPT !.exists = FALSE]
             /\ regs' = [u \in Users |-> 0]
             /\ hs' = Done(h, Reply(200, "success"))
          \/ /\ RegistrationCount(regs) > 0
             /\ hs' = [Done(h, Unhandled("P2003")) EXCEPT ![h].txError = "P2003"]
             /\ UNCHANGED <<event, regs>>
  /\ UNCHANGED <<started, hmacVars, projectVars, restVars>>

\* PATCH /v1/events/:id/moderate, lines 309-317: the role, then the row in
\* the caller's college; action is APPROVE or REJECT
ModerateFind(h, u, action) ==
  /\ FirstFree(hs, h)
  /\ started < MaxRequests
  /\ started' = started + 1
  /\ LET me == [IdleHandler EXCEPT !.op = "moderate", !.user = u,
                                   !.body = [NoBody EXCEPT !.action = action]]
     IN  hs' = [hs EXCEPT ![h] =
           IF ~requireRole(u, {"DEPT_ADMIN", "HEAD_ADMIN"})
           THEN [me EXCEPT !.pc = "done", !.res = Reply(403, "Forbidden")]
           ELSE IF ~EventInScope(event, u)
           THEN [me EXCEPT !.pc = "done", !.res = Reply(404, "Not found")]
           ELSE [me EXCEPT !.pc = "allowed", !.ev = event]]
  /\ UNCHANGED <<event, regs, hmacVars, projectVars, restVars>>

\* lines 318-333: moderationStatus is written by id
ModerateWrite(h) ==
  /\ hs[h].pc = "allowed" /\ hs[h].op = "moderate"
  /\ IF event.exists
     THEN /\ event' = [event EXCEPT !.moderationStatus =
                         IF hs[h].body.action = "APPROVE" THEN "APPROVED" ELSE "REJECTED"]
          /\ hs' = Done(h, Reply(200, "event"))
     ELSE /\ hs' = [Done(h, Unhandled("P2025")) EXCEPT ![h].txError = "P2025"]
          /\ UNCHANGED event
  /\ UNCHANGED <<regs, started, hmacVars, projectVars, restVars>>

\* the edit requests of a run: the author u1, another student, a faculty
\* member, an administrator and a caller without roles

UpdateEventRequests ==
  { [user |-> "f1", body |-> [NoBody EXCEPT !.capacity = <<MaxCapacity>>]] }
  \cup { [user |-> u, body |-> [NoBody EXCEPT !.title = <<"t1">>]] :
           u \in {"u1", "u2", "g1"} }


ModerateRequests ==
  { [user |-> "a1", action |-> a] : a \in {"APPROVE", "REJECT"} }
  \cup { [user |-> "f1", action |-> "REJECT"] }

(***************************************************************************)
(* messaging-service: services/SocketService.ts, presence tracking         *)
(***************************************************************************)
SocketIds == 1..MaxSockets
ChatUsers == {"m1", "m2"}

NewSocket == [state |-> "new", userId |-> ""]

\* userSocketSet.size === 0
SizeIsZeroOffByOne(S) == Cardinality(S) <= 1

SizeIsZero(S) == Cardinality(S) = 0

\* Map.prototype.set and Map.prototype.delete
MapPut(m, k, v) == [x \in DOMAIN m \cup {k} |-> IF x = k THEN v ELSE m[x]]
MapDelete(m, k) == [x \in DOMAIN m \ {k} |-> m[x]]

\* isUserOnline and getUserSocketCount
isUserOnline(userId) == userId \in DOMAIN userSockets
getUserSocketCount(userId) ==
  IF userId \in DOMAIN userSockets THEN Cardinality(userSockets[userId]) ELSE 0

\* handleConnection: socket sid, authenticated as userId, connects
handleConnection(sid, userId) ==
  /\ sockets[sid].state = "new"
  /\ sockets' = [sockets EXCEPT ![sid] = [state |-> "open", userId |-> userId]]
  /\ connectedUsers' = MapPut(connectedUsers, sid, userId)
  /\ LET had == IF userId \in DOMAIN userSockets THEN userSockets[userId] ELSE {}
     IN  userSockets' = MapPut(userSockets, userId, had \cup {sid})
  /\ emitted' = Append(emitted, [event |-> "userOnline", userId |-> userId])
  /\ UNCHANGED <<hmacVars, eventVars, projectVars, vt, authVars>>

\* handleDisconnection: the 'disconnect' event of an open socket
handleDisconnection(sid) ==
  /\ sockets[sid].state = "open"
  /\ sockets' = [sockets EXCEPT ![sid].state = "closed"]
  /\ connectedUsers' = MapDelete(connectedUsers, sid)
  /\ LET userId == sockets[sid].userId
     IN  IF userId \in DOMAIN userSockets
         THEN LET userSocketSet == userSockets[userId] \ {sid}
              IN  IF SizeIsZero(userSocketSet)
                  THEN /\ userSockets' = MapDelete(userSockets, userId)
                       /\ emitted' = Append(emitted, [event |-> "userOffline",
                                                      userId |-> userId])
                  ELSE /\ userSockets' = MapPut(userSockets, userId, userSocketSet)
                       /\ UNCHANGED emitted
         ELSE UNCHANGED <<userSockets, emitted>>
  /\ UNCHANGED <<hmacVars, eventVars, projectVars, vt, authVars>>

SocketsIdle ==
  /\ sockets = [sid \in SocketIds |-> NewSocket]
  /\ connectedUsers = <<>>
  /\ userSockets = <<>>
  /\ emitted = <<>>

\* the variables of the services no request reaches in a run
RestIdle ==
  /\ vt = <<>>
  /\ tokens = <<>>
  /\ rs = <<>>
  /\ rstarted = 0
  /\ SocketsIdle

\* one call of verifySignedRequest on request req
Call(req) ==
  LET r == verifySignedRequest(req, secret, clock, seen)
  IN  /\ seen' = r.seen
      /\ last' = [req |-> req, at |-> clock, out |-> r.out, before |-> seen]
      /\ accepts' = IF r.out = Accepted
                    THEN MapSet(accepts, req,
                                IF req \in DOMAIN accepts THEN accepts[req] + 1 ELSE 1)
                    ELSE accepts
      /\ UNCHANGED <<clock, secret, orig>>
      /\ UNCHANGED <<eventVars, projectVars, restVars>>

\* what the caller of an internal endpoint receives for an outcome of the
\* verifier: the routes call verifySignedRequest without a try/catch and the
\* service installs no error handler, so a thrown error is answered with its
\* statusCode (500 without one) and its message
EndpointReply(out) ==
  IF out.thrown
  THEN Reply(IF out.statusCode = 0 THEN 500 ELSE out.statusCode, out.message)
  ELSE Reply(200, "")

(***************************************************************************)
(* SpecHmac: a process lifetime of the verifier                            *)
(***************************************************************************)
HmacInit ==
  /\ clock = StartTime
  /\ secret \in Secrets
  /\ seen = <<>>
  /\ orig \in SignedMessages
  /\ last = NoCall
  /\ accepts = <<>>
  /\ EventsIdle
  /\ ProjectsIdle
  /\ RestIdle

\* time passes
Tick ==
  /\ \E t \in Instants : t > clock /\ clock' = t
  /\ UNCHANGED <<secret, seen, orig, last, accepts>>
  /\ UNCHANGED <<eventVars, projectVars, restVars>>

\* an internal endpoint receives a request and calls verifySignedRequest
VerifyCall == \E req \in RunRequestsOf(orig) : Call(req)

HmacNext == Tick \/ VerifyCall

SpecHmac == HmacInit /\ [][HmacNext]_vars

(***************************************************************************)
(* SpecParallel: calls of verifySignedRequest on parallel threads.  The    *)
(* function takes no lock, so a thread may run between the replay check of *)
(* another call (lines 25-50) and its insertion into the cache (51-59).    *)
(***************************************************************************)
IdleThread == [pc |-> "idle", req |-> NoRequest, at |-> 0, out |-> Accepted]

\* the requests the parallel callers present: the signed message, unmodified,
\* with a damaged signature, or without its signature header
ParallelRequests(m) ==
  { r \in RunRequestsOf(m) : r.ts = m.ts /\ r.body = m.body }

\* the thrown errors of lines 25-50
EarlyErrors ==
  { Err(500, "Server HMAC not configured"), Err(401, "Missing signature headers"),
    Err(401, "Signature expired"), Err(401, "Replay detected") }

Returned(t, req, at, out) ==
  /\ vt' = [vt EXCEPT ![t] = [pc |-> "done", req |-> req, at |-> at, out |-> out]]
  /\ last' = [req |-> req, at |-> at, out |-> out, before |-> seen]
  /\ accepts' = IF out = Accepted
                THEN MapSet(accepts, req,
                            IF req \in DOMAIN accepts THEN accepts[req] + 1 ELSE 1)
                ELSE accepts

\* lines 25-50 of a call: the secret, header and timestamp checks, purge and
\* the lookup of the signature in the cache
ThreadCheck(t, req) ==
  /\ vt[t].pc = "idle"
  /\ LET r == verifySignedRequest(req, secret, clock, seen)
     IN  IF r.out \in EarlyErrors
         THEN /\ seen' = r.seen
              /\ Returned(t, req, clock, r.out)
         ELSE /\ seen' = purge(seen, clock)
              /\ vt' = [vt EXCEPT ![t] = [pc |-> "checked", req |-> req,
                                          at |-> clock, out |-> Accepted]]
              /\ UNCHANGED <<last, accepts>>
  /\ UNCHANGED <<clock, secret, orig>>
  /\ UNCHANGED <<eventVars, projectVars, authVars, socketVars>>

\* lines 51-59 of the call: the digest comparison and seen.set
ThreadInsert(t) ==
  /\ vt[t].pc = "checked"
  /\ LET r == verifySignedRequest(vt[t].req, secret, vt[t].at, <<>>)
     IN  /\ seen' = IF r.out = Accepted
                    THEN MapSet(seen, vt[t].req.sig, r.seen[vt[t].req.sig])
                    ELSE seen
         /\ Returned(t, vt[t].req, vt[t].at, r.out)
  /\ UNCHANGED <<clock, secret, orig>>
  /\ UNCHANGED <<eventVars, projectVars, authVars, socketVars>>

ParallelInit ==
  /\ clock = StartTime
  /\ secret \in Secrets
  /\ seen = <<>>
  /\ orig \in { m \in SignedMessages : m.body = "{a:1}" }
  /\ last = NoCall
  /\ accepts = <<>>
  /\ vt = [t \in Handlers |-> IdleThread]
  /\ tokens = <<>> /\ rs = <<>> /\ rstarted = 0
  /\ SocketsIdle
  /\ EventsIdle
  /\ ProjectsIdle

ParallelNext ==
  \/ Tick
  \/ \E t \in Handlers, req \in ParallelRequests(orig) : ThreadCheck(t, req)
  \/ \E t \in Handlers : ThreadInsert(t)

SpecParallel == ParallelInit /\ [][ParallelNext]_vars

(***************************************************************************)
(* SpecVerify: verifySignedRequest applied once to every request, at every *)
(* clock value, on the empty cache and on the cache an earlier accepted    *)
(* call of the signed message left behind                                  *)
(***************************************************************************)
CachesAt(m, k, t) ==
  {<<>>} \cup
  { verifySignedRequest(FaithfulRequest(m), k, t0, <<>>).seen :
      t0 \in {i \in Instants : i <= t} }

VerifyInit ==
  /\ clock \in Instants
  /\ secret \in Secrets
  /\ orig \in SignedMessages
  /\ seen \in CachesAt(orig, secret, clock)
  /\ last = NoCall
  /\ accepts = <<>>
  /\ EventsIdle
  /\ ProjectsIdle
  /\ RestIdle

VerifyOnce ==
  /\ last = NoCall
  /\ \E req \in RequestsOf(orig) : Call(req)

VerifyNext == VerifyOnce

SpecVerify == VerifyInit /\ [][VerifyNext]_vars

\* the variables of the verifier while another service is observed
HmacIdle ==
  /\ clock = StartTime
  /\ secret = "k1"
  /\ seen = <<>>
  /\ orig = [method |-> "post", url |-> "/internal/ads", ts |-> NumTs(StartTime),
             body |-> "{}"]
  /\ last = NoCall
  /\ accepts = <<>>

(***************************************************************************)
(* SpecEvents: concurrent register / unregister requests on one event      *)
(***************************************************************************)
EventsInit ==
  /\ event \in Events
  /\ regs = [u \in Users |-> 0]
  /\ hs = [h \in Handlers |-> IdleHandler]
  /\ started = 0
  /\ HmacIdle
  /\ ProjectsIdle
  /\ RestIdle

EventsNext ==
  \/ \E h \in Handlers, u \in Users : RegisterFind(h, u)
  \/ \E h \in Handlers : RegisterCount(h)
  \/ \E h \in Handlers : RegisterCreate(h)
  \/ \E h \in Handlers : RegisterCommit(h)
  \/ \E h \in Handlers, u \in Users : UnregisterFind(h, u)
  \/ \E h \in Handlers : UnregisterDelete(h)

SpecEvents == EventsInit /\ [][EventsNext]_vars

(***************************************************************************)
(* SpecProjects: concurrent apply / decide requests on one project; the     *)
(* run starts with the pending applications earlier requests created       *)
(***************************************************************************)
ProjectsInit ==
  /\ project \in Projects
  /\ apps \in PendingApplications
  /\ project \in OpenProjects \/ apps \in PendingOfFirst
  /\ ps = [h \in Handlers |-> IdleP]
  /\ pstarted = 0
  /\ HmacIdle
  /\ EventsIdle
  /\ RestIdle

ProjectsNext ==
  \/ \E h \in Handlers, u \in Students \cup {"f1"} : ApplyFind(h, u)
  \/ \E h \in Handlers : ApplyFindUnique(h)
  \/ \E h \in Handlers : ApplyCreate(h)
  \/ \E h \in Handlers, r \in DecideRequests : DecideFind(h, r.user, r.target, r.status)
  \/ \E h \in Handlers : DecideCount(h)
  \/ \E h \in Handlers : DecideUpdate(h)

SpecProjects == ProjectsInit /\ [][ProjectsNext]_vars

(***************************************************************************)
(* SpecSequential: the projects service receiving its requests one after   *)
(* another: a request arrives when no handler is in flight                 *)
(***************************************************************************)
Quiet == \A g \in Handlers : ps[g].pc \in {"idle", "done"}

SequentialNext ==
  \/ \E h \in Handlers, u \in Students \cup {"f1"} : Quiet /\ ApplyFind(h, u)
  \/ \E h \in Handlers : ApplyFindUnique(h)
  \/ \E h \in Handlers : ApplyCreate(h)
  \/ \E h \in Handlers, r \in DecideRequests :
       Quiet /\ DecideFind(h, r.user, r.target, r.status)
  \/ \E h \in Handlers : DecideCount(h)
  \/ \E h \in Handlers : DecideUpdate(h)

SpecSequential == ProjectsInit /\ [][SequentialNext]_vars

(***************************************************************************)
(* SpecOwnership: the owner routes of the projects service, called by the   *)
(* author, by another faculty member and by a student                      *)
(***************************************************************************)
OwnershipInit ==
  /\ project \in Projects
  /\ apps = PendingOf({"s1"})
  /\ ps = [h \in Handlers |-> IdleP]
  /\ pstarted = 0
  /\ HmacIdle
  /\ EventsIdle
  /\ RestIdle

OwnerRouteCallers == {"f1", "f2", "s1"}

\* the project updates of a run: the author sends every body, the other
\* callers one
UpdateRequests ==
  { [user |-> "f1", data |-> data] : data \in UpdateBodies }
  \cup { [user |-> u, data |-> <<"maxStudents", MaxStudents>>] : u \in {"f2", "s1"} }

OwnershipNext ==
  \/ \E h \in Handlers, r \in UpdateRequests : UpdateFind(h, r.user, r.data)
  \/ \E h \in Handlers : UpdateWrite(h)
  \/ \E h \in Handlers, u \in OwnerRouteCallers : DeleteFind(h, u)
  \/ \E h \in Handlers : DeleteWrite(h)
  \/ \E h \in Handlers, r \in {d \in DecideRequests : d.target = "s1"} :
       DecideFind(h, r.user, r.target, r.status)
  \/ \E h \in Handlers : DecideCount(h)
  \/ \E h \in Handlers : DecideUpdate(h)

SpecOwnership == OwnershipInit /\ [][OwnershipNext]_vars

(***************************************************************************)
(* auth-service: routes/auth, rotation of refresh tokens                   *)
(***************************************************************************)
\* a SecurityToken row of type REFRESH_TOKEN; parent is the row whose rotation
\* issued it (0 for the token of a login)
RefreshToken(userId, expired, parent) ==
  [userId |-> userId, tokenHash |-> "good", usedAt |-> FALSE,
   expired |-> expired, parent |-> parent]

\* the cookie `${token.id}.${secret}`, and a request without the cookie
Cookie(id, secretPart) == [id |-> id, secret |-> secretPart]
NoCookie == Cookie(0, "")

\* the cookies a client presents: none, an id that names no row, a wrong
\* secret, or a cookie the service issued
Cookies ==
  {NoCookie, Cookie(MaxRequests + 1, "good"), Cookie(1, "bad")} \cup
  { Cookie(id, "good") : id \in DOMAIN tokens }

IdleR == [op |-> "", pc |-> "idle", cookie |-> NoCookie, res |-> NoReply]

\* record.usedAt || record.expiresAt < new Date()
Spent(record) == record.usedAt \/ record.expired

\* rotateRefreshToken up to verifySecret: the cookie, findUnique and the
\* checks of the record
RefreshFind(h, cookie) ==
  /\ rstarted < MaxRequests
  /\ FirstFree(rs, h)
  /\ rstarted' = rstarted + 1
  /\ IF \/ cookie = NoCookie
        \/ cookie.id \notin DOMAIN tokens
        \/ Spent(tokens[cookie.id])
        \/ tokens[cookie.id].tokenHash # cookie.secret
     THEN rs' = [rs EXCEPT ![h] = [op |-> "refresh", pc |-> "done", cookie |-> cookie,
                                  res |-> Reply(401, "Invalid refresh token")]]
     ELSE rs' = [rs EXCEPT ![h] = [op |-> "refresh", pc |-> "found", cookie |-> cookie,
                                  res |-> NoReply]]
  /\ UNCHANGED tokens
  /\ UNCHANGED <<hmacVars, eventVars, projectVars, vt, socketVars>>

\* securityToken.update({ where: { id: record.id }, data: { usedAt } })
RefreshMarkUsed(h) ==
  /\ rs[h].pc = "found"
  /\ tokens' = [tokens EXCEPT ![rs[h].cookie.id].usedAt = TRUE]
  /\ rs' = [rs EXCEPT ![h].pc = "marked"]
  /\ UNCHANGED rstarted
  /\ UNCHANGED <<hmacVars, eventVars, projectVars, vt, socketVars>>

\* issueRefreshTokenCookie and the reply of POST /v1/auth/refresh
RefreshIssue(h) ==
  /\ rs[h].pc = "marked"
  /\ tokens' = Append(tokens, RefreshToken(tokens[rs[h].cookie.id].userId, FALSE,
                                           rs[h].cookie.id))
  /\ rs' = [rs EXCEPT ![h].pc = "done", ![h].res = Reply(200, "")]
  /\ UNCHANGED rstarted
  /\ UNCHANGED <<hmacVars, eventVars, projectVars, vt, socketVars>>

\* POST /v1/auth/logout
Logout(h, cookie) ==
  /\ rstarted < MaxRequests
  /\ FirstFree(rs, h)
  /\ rstarted' = rstarted + 1
  /\ tokens' = IF cookie # NoCookie /\ cookie.id \in DOMAIN tokens
               THEN [tokens EXCEPT ![cookie.id].usedAt = TRUE]
               ELSE tokens
  /\ rs' = [rs EXCEPT ![h] = [op |-> "logout", pc |-> "done", cookie |-> cookie,
                              res |-> Reply(204, "")]]
  /\ UNCHANGED <<hmacVars, eventVars, projectVars, vt, socketVars>>

(***************************************************************************)
(* SpecAuth: concurrent POST /v1/auth/refresh and /v1/auth/logout requests *)
(* after one login                                                         *)
(***************************************************************************)
AuthInit ==
  /\ \E expired \in BOOLEAN : tokens = << RefreshToken("u1", expired, 0) >>
  /\ rs = [h \in Handlers |-> IdleR]
  /\ rstarted = 0
  /\ vt = <<>>
  /\ SocketsIdle
  /\ HmacIdle
  /\ EventsIdle
  /\ ProjectsIdle

AuthNext ==
  \/ \E h \in Handlers, cookie \in Cookies : RefreshFind(h, cookie)
  \/ \E h \in Handlers : RefreshMarkUsed(h)
  \/ \E h \in Handlers : RefreshIssue(h)
  \/ \E h \in Handlers, cookie \in Cookies : Logout(h, cookie)

SpecAuth == AuthInit /\ [][AuthNext]_vars

(***************************************************************************)
(* SpecEventEdits: concurrent update, delete and moderate requests on one  *)
(* event, with or without a registration                                   *)
(***************************************************************************)
EditedEvents ==
  { [OpenEvent(<<1>>) EXCEPT !.moderationStatus = m] : m \in ModerationStatus }
  \cup { [OpenEvent(<<>>) EXCEPT !.collegeId = "c2"] }

EventEditsInit ==
  /\ event \in EditedEvents
  /\ regs = [u \in Users |-> IF u = "u2" THEN 1 ELSE 0]
  /\ hs = [h \in Handlers |-> IdleHandler]
  /\ started = 0
  /\ HmacIdle
  /\ ProjectsIdle
  /\ RestIdle

EventEditsNext ==
  \/ \E h \in Handlers, r \in UpdateEventRequests : EventUpdateFind(h, r.user, r.body)
  \/ \E h \in Handlers : EventUpdateWrite(h)
  \/ \E h \in Handlers, u \in {"u1", "u2", "f1"} : EventDeleteFind(h, u)
  \/ \E h \in Handlers : EventDeleteWrite(h)
  \/ \E h \in Handlers, r \in ModerateRequests : ModerateFind(h, r.user, r.action)
  \/ \E h \in Handlers : ModerateWrite(h)

SpecEventEdits == EventEditsInit /\ [][EventEditsNext]_vars

(***************************************************************************)
(* SpecRegisterEdits: register requests on an approved event of college c1 *)
(* while a faculty member changes its capacity or deletes it and an        *)
(* administrator moderates it                                              *)
(***************************************************************************)
RegisterEditsInit ==
  /\ event \in { OpenEvent(c) : c \in Capacities }
  /\ regs = [u \in Users |-> 0]
  /\ hs = [h \in Handlers |-> IdleHandler]
  /\ started = 0
  /\ HmacIdle
  /\ ProjectsIdle
  /\ RestIdle

RegisterEditsNext ==
  \/ \E h \in Handlers, u \in {"u1", "u2"} : RegisterFind(h, u)
  \/ \E h \in Handlers : RegisterCount(h)
  \/ \E h \in Handlers : RegisterCreate(h)
  \/ \E h \in Handlers : RegisterCommit(h)
  \/ \E h \in Handlers, c \in 1..MaxCapacity :
       EventUpdateFind(h, "f1", [NoBody EXCEPT !.capacity = <<c>>])
  \/ \E h \in Handlers : EventUpdateWrite(h)
  \/ \E h \in Handlers : EventDeleteFind(h, "f1")
  \/ \E h \in Handlers : EventDeleteWrite(h)
  \/ \E h \in Handlers, a \in {"APPROVE", "REJECT"} : ModerateFind(h, "a1", a)
  \/ \E h \in Handlers : ModerateWrite(h)

SpecRegisterEdits == RegisterEditsInit /\ [][RegisterEditsNext]_vars

(***************************************************************************)
(* SpecScope: the routes of both services called on a resource of another  *)
(* college, on an id that names no row, and on a resource of the caller's  *)
(* college                                                                 *)
(***************************************************************************)
\* the event or the project is outside the caller's scope: a row of college
\* c2, or no row at all
ScopeInit ==
  /\ \/ /\ event \in
             { [OpenEvent(<<>>) EXCEPT !.collegeId = "c2"],
               [OpenEvent(<<1>>) EXCEPT !.collegeId = "c2",
                                        !.moderationStatus = "PENDING_REVIEW"],
               [OpenEvent(<<>>) EXCEPT !.exists = FALSE] }
        /\ project = OpenProject(1)
        /\ apps = PendingOf({"s1"})
     \/ /\ event = OpenEvent(<<1>>)
        /\ project \in { [OpenProject(1) EXCEPT !.collegeId = "c2"],
                          [OpenProject(1) EXCEPT !.exists = FALSE] }
        /\ apps = IF project.exists THEN PendingOf({"s1"}) ELSE PendingOf({})
  /\ regs = [u \in Users |-> 0]
  /\ hs = [h \in Handlers |-> IdleHandler]
  /\ started = 0
  /\ ps = [h \in Handlers |-> IdleP]
  /\ pstarted = 0
  /\ HmacIdle
  /\ RestIdle

ScopeBudget == started + pstarted < MaxRequests

ScopeNext ==
  \/ \E h \in Handlers : ScopeBudget /\ RegisterFind(h, "u1")
  \/ \E h \in Handlers : RegisterCount(h)
  \/ \E h \in Handlers : RegisterCreate(h)
  \/ \E h \in Handlers : RegisterCommit(h)
  \/ \E h \in Handlers : ScopeBudget /\ UnregisterFind(h, "u1")
  \/ \E h \in Handlers : UnregisterDelete(h)
  \/ \E h \in Handlers, u \in {"u2", "f1"} :
       ScopeBudget /\ EventUpdateFind(h, u, [NoBody EXCEPT !.title = <<"t1">>])
  \/ \E h \in Handlers : EventUpdateWrite(h)
  \/ \E h \in Handlers : ScopeBudget /\ EventDeleteFind(h, "f1")
  \/ \E h \in Handlers : EventDeleteWrite(h)
  \/ \E h \in Handlers, u \in {"a1", "f1"} : ScopeBudget /\ ModerateFind(h, u, "REJECT")
  \/ \E h \in Handlers : ModerateWrite(h)
  \/ \E h \in Handlers, u \in {"s2", "f1"} : ScopeBudget /\ ApplyFind(h, u)
  \/ \E h \in Handlers : ApplyFindUnique(h)
  \/ \E h \in Handlers : ApplyCreate(h)
  \/ \E h \in Handlers, u \in {"f1", "s1"} :
       ScopeBudget /\ UpdateFind(h, u, <<"progressStatus", "COMPLETED">>)
  \/ \E h \in Handlers : UpdateWrite(h)
  \/ \E h \in Handlers : ScopeBudget /\ DeleteFind(h, "f1")
  \/ \E h \in Handlers : DeleteWrite(h)
  \/ \E h \in Handlers, u \in {"f1", "s2"}, s \in {"s1", "s2"} :
       ScopeBudget /\ DecideFind(h, u, s, "ACCEPTED")
  \/ \E h \in Handlers : DecideCount(h)
  \/ \E h \in Handlers : DecideUpdate(h)

SpecScope == ScopeInit /\ [][ScopeNext]_vars

(***************************************************************************)
(* SpecSockets: sockets connecting to and disconnecting from the messaging *)
(* service                                                                 *)
(***************************************************************************)
SocketsInit ==
  /\ SocketsIdle
  /\ vt = <<>> /\ tokens = <<>> /\ rs = <<>> /\ rstarted = 0
  /\ HmacIdle
  /\ EventsIdle
  /\ ProjectsIdle

SocketsNext ==
  \/ \E sid \in SocketIds, u \in ChatUsers : handleConnection(sid, u)
  \/ \E sid \in SocketIds : handleDisconnection(sid)

SpecSockets == SocketsInit /\ [][SocketsNext]_vars

(***************************************************************************)
(* SpecAdmission: the claim operations of both services side by side:      *)
(* register / unregister on one event and apply on one project, MaxRequests *)
(* requests in all, starting from empty tables                             *)
(***************************************************************************)
AdmissionInit ==
  /\ \/ event \in Events /\ project = OpenProject(1)
     \/ event = OpenEvent(<<1>>) /\ project \in Projects
     \/ /\ event \in Events /\ event.moderationStatus = "PENDING_REVIEW"
        /\ project \in Projects \ OpenProjects
  /\ regs = [u \in Users |-> 0]
  /\ hs = [h \in Handlers |-> IdleHandler]
  /\ started = 0
  /\ apps = PendingOf({})
  /\ ps = [h \in Handlers |-> IdleP]
  /\ pstarted = 0
  /\ HmacIdle
  /\ RestIdle

\* the users and the students whose requests the run interleaves
AdmissionUsers == {"u1", "u2"}
AdmissionStudents == {"s1", "s2"}

\* the service has yet to receive a request of the run
MoreRequests == started + pstarted < MaxRequests

AdmissionNext ==
  \/ \E h \in Handlers, u \in AdmissionUsers : MoreRequests /\ RegisterFind(h, u)
  \/ \E h \in Handlers : RegisterCount(h)
  \/ \E h \in Handlers : RegisterCreate(h)
  \/ \E h \in Handlers : RegisterCommit(h)
  \/ \E h \in Handlers, u \in AdmissionUsers : MoreRequests /\ UnregisterFind(h, u)
  \/ \E h \in Handlers : UnregisterDelete(h)
  \/ \E h \in Handlers, u \in AdmissionStudents : MoreRequests /\ ApplyFind(h, u)
  \/ \E h \in Handlers : ApplyFindUnique(h)
  \/ \E h \in Handlers : ApplyCreate(h)

SpecAdmission == AdmissionInit /\ [][AdmissionNext]_vars

(***************************************************************************)
(* Claims on the signed-request verifier                                   *)
(***************************************************************************)
Called == last # NoCall
InWindow(call) == call.req.ts.kind = "num" /\ Abs(call.at - call.req.ts.n) <= WINDOW_SECONDS
\* the presented signature was in the cache, not yet expired, when the call began
CachedLive(call) ==
  call.req.sig \in DOMAIN call.before /\ call.before[call.req.sig] > call.at

\* C1 (as claimed): a signed request whose timestamp is inside the validity
\* window is accepted at most once in a process lifetime: a second
\* presentation inside the window is rejected with 'Replay detected', so no
\* request and no signature is ever accepted twice.
C1_ReplayRejectedInWindow ==
  /\ \A r \in DOMAIN accepts : accepts[r] <= 1
  /\ \A r1, r2 \in DOMAIN accepts : r1.sig = r2.sig => r1 = r2
  /\ (Called /\ InWindow(last) /\ secret # ""
        /\ \E r \in DOMAIN accepts :
             r.sig = last.req.sig /\ (r # last.req \/ last.out # Accepted))
       => last.out = Err(401, "Replay detected")

\* C4: a call whose numeric timestamp t has |now - t| > 300 is rejected, never
\* as invalid signature or replay and never accepted, whatever the digest and
\* the cache; reaching the timestamp check (secret configured, both headers
\* present) it is rejected as 'Signature expired' and the cache is left as it
\* was; at |now - t| = 300 the call is not rejected as expired.
C4_WindowEnforcement ==
  Called /\ last.req.ts.kind = "num" =>
    /\ Abs(last.at - last.req.ts.n) > WINDOW_SECONDS =>
         /\ last.out.thrown
         /\ last.out.message \notin {"Invalid signature", "Replay detected"}
         /\ seen = last.before
         /\ (secret # "" /\ last.req.sig # NoSig) =>
              last.out = Err(401, "Signature expired")
    /\ Abs(last.at - last.req.ts.n) = WINDOW_SECONDS =>
         last.out.message # "Signature expired"

\* a request signed at now - 301 with the correct digest, its signature still
\* in the cache, failed as expired
C4_Witness ==
  /\ Called
  /\ last.req = FaithfulRequest(orig)
  /\ last.at - last.req.ts.n = WINDOW_SECONDS + 1
  /\ last.req.sig \in DOMAIN last.before
  /\ last.out = Err(401, "Signature expired")

\* the request presents the signature of the signed message with another body
BodyAltered(call) ==
  call.req.sig = SignatureOf(secret, orig) /\ call.req.body # orig.body
\* the request presents the original body and a signature differing in one character
SignatureFlipped(call) ==
  call.req.sig = Damage(SignatureOf(secret, orig), "flip") /\ call.req.body = orig.body

\* C5 (as claimed): a request in the window, not seen before, that presents
\* the signature of (method, path, timestamp, B) with a body B' # B, or the
\* original body with a signature differing in one character, is rejected
\* with 'Invalid signature' and is not cached.
C5_TamperDetected ==
  (Called /\ secret # "" /\ InWindow(last) /\ ~CachedLive(last)
     /\ (BodyAltered(last) \/ SignatureFlipped(last)))
    => /\ last.out = Err(401, "Invalid signature")
       /\ last.req.sig \notin DOMAIN seen \ DOMAIN last.before

\* the payload a signer computes by the documented wire contract:
\* METHOD:path:timestamp:body-json, the empty string for an absent body
ContractPayload(m) ==
  <<ToUpperCase(m.method), m.url, m.ts,
    IF m.body = "undefined" THEN "" ELSE JSONstringify(m.body)>>

\* C6 (as claimed): a request signed over the contract payload that arrives
\* unmodified, within the window and not seen before, is accepted.
C6_SignVerifyRoundTrip ==
  (Called /\ secret # "" /\ InWindow(last) /\ ~CachedLive(last)
     /\ last.req = FaithfulRequest(orig)
     /\ last.req.sig = sign(secret, ContractPayload(orig)))
    => last.out = Accepted

\* C15: whenever the replay cache holds the presented signature with a
\* stored expiry > now, the call of verifySignedRequest is rejected, and the
\* cache entry of the signature keeps its expiry.
C15_CachedSignatureRejected ==
  (Called /\ CachedLive(last))
    => /\ last.out.thrown
       /\ last.req.sig \in DOMAIN seen
       /\ seen[last.req.sig] = last.before[last.req.sig]

\* the unmodified signed request, accepted before, is presented again inside
\* its window while its cache entry is live, and is rejected as a replay
C15_Witness ==
  /\ Called /\ CachedLive(last) /\ InWindow(last)
  /\ last.req = FaithfulRequest(orig)
  /\ last.req \in DOMAIN accepts
  /\ last.out = Err(401, "Replay detected")

\* the call reached the digest comparison with a signature that is not the
\* expected digest
DigestMismatch(call) ==
  /\ secret # "" /\ InWindow(call) /\ ~CachedLive(call)
  /\ call.req.sig # NoSig
  /\ call.req.sig #
       sign(secret, buildPayload(call.req.method, call.req.url, call.req.ts,
                                 NullishCoalesce(call.req.body, "{}")))

\* C16 (as claimed): every call that does not accept throws an error with
\* statusCode 500 when the secret is unset and 401 otherwise, and a presented
\* signature that does not match the expected digest, whatever its length,
\* is rejected with 401 'Invalid signature'.
C16_TypedFailures ==
  Called =>
    /\ last.out.thrown => last.out.statusCode = (IF secret = "" THEN 500 ELSE 401)
    /\ DigestMismatch(last) => last.out = Err(401, "Invalid signature")

AuthFailureReasons ==
  {"Missing signature headers", "Signature expired", "Replay detected", "Invalid signature"}
AuthFailure(out) == out.thrown /\ out.message \in AuthFailureReasons

\* C17 (as claimed): two requests that fail authentication, for whatever
\* reasons, get the same caller-visible status and message: the reply to the
\* failed call equals the reply any other failing request would have got in
\* its place.
C17_OpaqueAuthFailures ==
  Called =>
    \A other \in RequestsOf(orig) :
      LET out2 == verifySignedRequest(other, secret, last.at, last.before).out
      IN  (AuthFailure(last.out) /\ AuthFailure(out2))
            => EndpointReply(out2) = EndpointReply(last.out)

\* C24: verifySignedRequest applies its checks in the order missing secret
\* (500), missing headers, expired, replay, signature comparison, and the
\* first check that fails decides the outcome: without a secret every request
\* gets 500; a request outside the window is expired whatever the cache holds;
\* a signature live in the cache is a replay whatever body or digest comes
\* with it; a call that passes all four is accepted or fails in the signature
\* comparison.
C24_CheckOrder ==
  Called =>
    IF secret = ""
    THEN last.out = Err(500, "Server HMAC not configured")
    ELSE IF last.req.ts = NoTs \/ last.req.sig = NoSig
    THEN last.out = Err(401, "Missing signature headers")
    ELSE IF ~InWindow(last)
    THEN last.out = Err(401, "Signature expired")
    ELSE IF CachedLive(last)
    THEN last.out = Err(401, "Replay detected")
    ELSE IF DigestMismatch(last)
    THEN /\ last.out.thrown
         /\ last.out.message \notin
              {"Server HMAC not configured", "Missing signature headers",
               "Signature expired", "Replay detected"}
    ELSE last.out = Accepted

\* a signature live in the cache came back with another body and was
\* reported as a replay
C24_Witness ==
  /\ Called /\ secret # "" /\ InWindow(last) /\ CachedLive(last)
  /\ BodyAltered(last)
  /\ last.out = Err(401, "Replay detected")

\* C27 (as claimed): the purge runs at the start of every call, so after any
\* call has returned or thrown, whatever its outcome, the cache holds no
\* entry whose stored expiry is <= the time of the call.
C27_PurgeOnEveryCall ==
  Called => \A s \in DOMAIN seen : seen[s] > last.at

\* the entries of cache c are entries of cache b, with the same expiry
KeptFrom(c, b) == \A s \in DOMAIN c : s \in DOMAIN b /\ c[s] = b[s]

\* C28: the replay cache holds a signature only if a request bearing it was
\* accepted, stored with the acceptance time + 300: an accepted call stores
\* its signature with expiry now + 300 and adds nothing else, a call that
\* fails adds or changes no entry, and a call that fails for a missing
\* secret, missing headers or an expired timestamp leaves the cache as it was.
C28_CacheContents ==
  /\ \A s \in DOMAIN seen :
       /\ \E r \in DOMAIN accepts : r.sig = s
       /\ seen[s] - WINDOW_SECONDS \in Instants /\ seen[s] - WINDOW_SECONDS <= clock
  /\ Called =>
       /\ last.out = Accepted =>
            /\ last.req.sig \in DOMAIN seen
            /\ seen[last.req.sig] = last.at + WINDOW_SECONDS
            /\ KeptFrom([s \in DOMAIN seen \ {last.req.sig} |-> seen[s]], last.before)
       /\ last.out # Accepted => KeptFrom(seen, last.before)
       /\ last.out.message \in {"Server HMAC not configured", "Missing signature headers",
                                 "Signature expired"}
            => seen = last.before

\* a call that failed as 'Invalid signature' purged the expired entry of an
\* earlier acceptance and stored nothing
C28_Witness ==
  /\ Called /\ last.out = Err(401, "Invalid signature")
  /\ last.before # <<>> /\ seen = <<>>
  /\ accepts # <<>>

(***************************************************************************)
(* Claims on event registration                                            *)
(***************************************************************************)
EventOpen == event.collegeId = "c1" /\ event.moderationStatus = "APPROVED"
Claimed(h) == hs[h].pc = "done" /\ hs[h].op = "register" /\ hs[h].res.status = 200
Full(h) == hs[h].pc = "done" /\ hs[h].op = "register" /\ hs[h].res = Reply(400, "Event is full")
AlreadyClaimed(h) ==
  hs[h].pc = "done" /\ hs[h].op = "register" /\ hs[h].res = Reply(409, "Already registered")

\* C2: for an event with a numeric capacity C, in every reachable state under
\* any interleaving of register transactions and unregister calls, the number
\* of committed EventRegistration rows is at most C.
C2_CapacityInvariant ==
  TypeofNumber(event.capacity) => RegistrationCount(regs) <= event.capacity[1]

\* the event is filled to its capacity and a transaction that raced for the
\* last slot was aborted
C2_Witness ==
  /\ EventOpen /\ TypeofNumber(event.capacity)
  /\ RegistrationCount(regs) = event.capacity[1]
  /\ \E h \in Handlers : hs[h].op = "register" /\ hs[h].txError = "P2034"
  /\ \E h \in Handlers : Claimed(h)

\* C7 (as claimed): of two sequential register calls of the same user on an
\* approved event of any capacity, the first ends Claimed and the second ends
\* AlreadyClaimed (409 'Already registered'), never Full.
C7_SameRequesterTwice ==
  \A g, h \in Handlers :
    (/\ g # h /\ started = 2 /\ EventOpen
     /\ Claimed(g)
     /\ hs[h].pc = "done" /\ hs[h].op = "register" /\ hs[h].user = hs[g].user
     /\ hs[h].had)
    => AlreadyClaimed(h)

\* C8 (as claimed): when N distinct requesters register on an approved event
\* with capacity C < N and no prior registrations, exactly C calls end with
\* Claimed and the other N - C calls end with Full, under every interleaving.
C8_ExactAdmissionCount ==
  (/\ EventOpen /\ TypeofNumber(event.capacity)
   /\ started = MaxHandlers
   /\ \A h \in Handlers : hs[h].pc = "done" /\ hs[h].op = "register"
   /\ \A g, h \in Handlers : g # h => hs[g].user # hs[h].user
   /\ event.capacity[1] < MaxHandlers)
  => /\ Cardinality({h \in Handlers : Claimed(h)}) = event.capacity[1]
     /\ Cardinality({h \in Handlers : Full(h)}) = MaxHandlers - event.capacity[1]

\* C9 (as claimed): a registration transaction aborted with a serialization
\* failure is answered with a transient-conflict outcome (409) or retried: it
\* is never reported as Full or AlreadyClaimed and never escapes as a server
\* error (500), and it leaves no registration row behind.
C9_SerializationConflictHandled ==
  \A h \in Handlers :
    (hs[h].pc = "done" /\ hs[h].txError = "P2034")
    => /\ hs[h].res.status # 500
       /\ hs[h].res.message \notin {"Event is full", "Already registered"}

\* C19 (as claimed): on an event with visibleToAllDepts = false, a register
\* call of a requester whose department is not among the event's departments
\* is rejected and creates no row: every registration of the event belongs
\* to a requester who passes the visibility rule.
C19_DepartmentGatesRegistration ==
  \A u \in Users :
    ~EventVisibleTo(event, u) =>
      /\ regs[u] = 0
      /\ \A h \in Handlers : hs[h].user = u => ~Claimed(h)

(***************************************************************************)
(* Claims on project applications                                          *)
(***************************************************************************)
\* C3 (as claimed): for a project with maxStudents = M, in every reachable
\* state under any interleaving of status updates that accept different
\* pending applications, at most M applications have status ACCEPTED.
C3_AcceptedWithinCap ==
  AcceptedCount(apps) <= project.maxStudents

\* C10 (as claimed): when two applications of the same student to the same
\* project interleave, the call that loses the race on the unique key is
\* answered AlreadyClaimed (409 'Already applied'); the uniqueness violation
\* never surfaces as a server error (500).
C10_DuplicateApplyIsAlreadyClaimed ==
  \A h \in Handlers :
    (ps[h].pc = "done" /\ ps[h].op = "apply" /\ ps[h].txError = "P2002")
    => ps[h].res = Reply(409, "Already applied")

(***************************************************************************)
(* Claims on the admission records of both services                        *)
(***************************************************************************)
\* C11: in every reachable state, under any interleaving of register,
\* unregister and apply operations, there is at most one EventRegistration
\* row per (eventId, userId) and at most one AppliedProject row per
\* (projectId, studentId).
C11_UniqueAdmissionRecords ==
  /\ \A u \in Users : regs[u] <= 1
  /\ \A s \in Students : Len(apps[s]) <= 1

\* a registration is committed, and of two racing applications of a student
\* the unique key stopped the second
C11_Witness ==
  /\ \E u \in Users : regs[u] = 1
  /\ \E h \in Handlers :
       /\ ps[h].pc = "done" /\ ps[h].op = "apply" /\ ps[h].txError = "P2002"
       /\ Len(apps[ps[h].user]) = 1

\* every request the event service received so far is a register call of
\* user u, and every request the projects service received is an application
\* of student s
OnlyRegistersOf(u) ==
  /\ started = Cardinality({h \in Handlers : hs[h].pc # "idle"})
  /\ \A h \in Handlers : hs[h].pc # "idle" => hs[h].op = "register" /\ hs[h].user = u
OnlyAppliesOf(s) ==
  /\ pstarted = Cardinality({h \in Handlers : ps[h].pc # "idle"})
  /\ \A h \in Handlers : ps[h].pc # "idle" => ps[h].op = "apply" /\ ps[h].user = s
Applied(h) == ps[h].pc = "done" /\ ps[h].op = "apply" /\ ps[h].res.status = 200

\* C12: when the same claim (one user's register on the event, one student's
\* application to the project) is issued again and again on empty tables, at
\* most one call creates a record, the table never holds more than that one
\* record, and once a call has succeeded the admitted count is exactly one
\* whatever the re-issued calls do.
C12_IdempotentReclaim ==
  /\ \A u \in Users :
       OnlyRegistersOf(u) =>
         /\ RegistrationCount(regs) <= 1
         /\ Cardinality({h \in Handlers : Claimed(h)}) <= 1
         /\ (\E h \in Handlers : Claimed(h)) => RegistrationCount(regs) = 1
  /\ \A s \in Students :
       OnlyAppliesOf(s) =>
         /\ \A t \in Students : Len(apps[t]) <= (IF t = s THEN 1 ELSE 0)
         /\ Cardinality({h \in Handlers : Applied(h)}) <= 1
         /\ (\E h \in Handlers : Applied(h)) => Len(apps[s]) = 1

\* a student applied twice, the second call answered 'Already applied', and
\* a user registered: one row each
C12_Witness ==
  /\ \E u \in Users : OnlyRegistersOf(u) /\ started = 1 /\ regs[u] = 1
  /\ \E s \in Students :
       /\ OnlyAppliesOf(s) /\ pstarted = 2 /\ Len(apps[s]) = 1
       /\ \E g, h \in Handlers :
            Applied(g) /\ ps[h].pc = "done" /\ ps[h].res = Reply(409, "Already applied")

(***************************************************************************)
(* Claims on the decisions of the project author                           *)
(***************************************************************************)
\* C13 (as claimed): the status of an application changes at most once: no
\* step, under any interleaving of status updates, changes the status of an
\* application that is ACCEPTED or REJECTED.
C13_SingleDecision ==
  [][\A s \in Students :
       (Len(apps[s]) = 1 /\ apps[s][1] # "PENDING") => apps'[s] = apps[s]]_vars

Accepting(h) == ps[h].op = "decide" /\ ps[h].status = "ACCEPTED"
CapFull(h) ==
  Accepting(h) /\ ps[h].pc = "done" /\ ps[h].res = Reply(400, "Project capacity reached")
StatusesWith(st) == {s \in Students : Len(apps[s]) = 1 /\ apps[s][1] = st}

\* C14: when the applications of a project with maxStudents = M are decided
\* one after another, an acceptance goes through exactly while fewer than M
\* applications are ACCEPTED: the accepted applications never exceed M, an
\* acceptance is answered 'Project capacity reached' only when M are accepted,
\* whatever the number of REJECTED ones, and that answer leaves the
\* application PENDING and the table unchanged.
C14_SequentialCap ==
  /\ [](/\ Cardinality(StatusesWith("ACCEPTED")) <= project.maxStudents
        /\ \A h \in Handlers :
             /\ (Accepting(h) /\ ps[h].pc = "update")
                  => Cardinality(StatusesWith("ACCEPTED")) < project.maxStudents
             /\ CapFull(h)
                  => Cardinality(StatusesWith("ACCEPTED")) = project.maxStudents
             /\ (Accepting(h) /\ ps[h].pc = "done" /\ ps[h].res.status = 200)
                  => apps[ps[h].target] = <<"ACCEPTED">>)
  /\ [][\A h \in Handlers :
          (~CapFull(h) /\ CapFull(h)')
            => apps' = apps /\ apps[ps[h].target] = <<"PENDING">>]_vars

\* with maxStudents = M, M applications are accepted, one is rejected and a
\* further acceptance was answered 'Project capacity reached'
C14_Witness ==
  /\ Cardinality(StatusesWith("ACCEPTED")) = project.maxStudents
  /\ StatusesWith("REJECTED") # {}
  /\ \E h \in Handlers : CapFull(h) /\ apps[ps[h].target] = <<"PENDING">>

\* the rejection the register route gives for an event that fails a
\* precondition, and the apply route for a project that fails one
EventRejections ==
  IF event.collegeId # "c1" THEN {Reply(404, "Not found")}
  ELSE IF event.moderationStatus # "APPROVED"
  THEN {Reply(400, "Event not open for registration")}
  ELSE {}
ProjectRejections(u) ==
  (IF project.collegeId # CallerCollege(u) \/ project.archived
   THEN {Reply(404, "Project not found")} ELSE {})
  \cup (IF project.moderationStatus # "APPROVED"
        THEN {Reply(403, "Project not open for applications")} ELSE {})
  \cup (IF project.progressStatus = "COMPLETED"
        THEN {Reply(400, "Project already completed")} ELSE {})
  \cup (IF ~project.visibleToAllDepts /\ CallerDepartment(u) \notin project.departments
        THEN {Reply(403, "Not visible to your department")} ELSE {})
  \cup (IF project.deadline = "past"
        THEN {Reply(400, "Application deadline has passed")} ELSE {})

\* C18: a register call on an event that is missing from the caller's college
\* or not APPROVED, and an application to a project that is missing,
\* archived, not APPROVED, COMPLETED, not visible to the student's
\* department or past its deadline, is answered with the rejection of the
\* failed precondition in its first step: the handler never opens the
\* transaction, never reaches findUnique or the insert, and the tables stay
\* as they were.
C18_PreconditionFailuresWriteNothing ==
  /\ EventRejections # {} =>
       /\ \A u \in Users : regs[u] = 0
       /\ \A h \in Handlers :
            hs[h].op = "register" =>
              /\ hs[h].pc = "done" /\ hs[h].res \in EventRejections
              /\ ~hs[h].didCount /\ hs[h].txError = ""
  /\ \A h \in Handlers :
       (ps[h].op = "apply" /\ ProjectRejections(ps[h].user) # {}) =>
         /\ ps[h].pc = "done" /\ ps[h].res \in ProjectRejections(ps[h].user)
         /\ ps[h].txError = ""
         /\ apps = PendingOf({})

\* a register call on an event awaiting review and an application past the
\* project's deadline were both rejected, and both tables are empty
C18_Witness ==
  /\ event.moderationStatus = "PENDING_REVIEW"
  /\ \E h \in Handlers :
       hs[h].op = "register" /\ hs[h].res = Reply(400, "Event not open for registration")
  /\ project.deadline = "past"
  /\ \E h \in Handlers :
       ps[h].op = "apply" /\ ps[h].res = Reply(400, "Application deadline has passed")
  /\ \A u \in Users : regs[u] = 0
  /\ apps = PendingOf({})

(***************************************************************************)
(* Claims on the ownership of projects                                     *)
(***************************************************************************)
IsOwner(u) ==
  /\ "FACULTY" \in RolesOf(u)
  /\ project.authorId = u
  /\ project.collegeId = CallerCollege(u)
OwnerRoute(h) == ps[h].op \in {"update", "delete", "decide"}
OwnershipRejections ==
  {Reply(403, "Forbidden"), Reply(404, "Not found"), Reply(404, "Application not found")}

OpenSockets(u) ==
  { sid \in SocketIds : sockets[sid].state = "open" /\ sockets[sid].userId = u }

LastEmitted == emitted[Len(emitted)]

Presence ==
  /\ \A u \in ChatUsers :
       /\ isUserOnline(u) <=> OpenSockets(u) # {}
       /\ getUserSocketCount(u) = Cardinality(OpenSockets(u))
  /\ \A u \in DOMAIN userSockets : userSockets[u] # {}
  /\ DOMAIN connectedUsers = UNION { userSockets[u] : u \in DOMAIN userSockets }
  /\ \A sid \in DOMAIN connectedUsers :
       /\ connectedUsers[sid] \in DOMAIN userSockets
       /\ sid \in userSockets[connectedUsers[sid]]

OfflineOnlyByLastSocket ==
  (emitted' # emitted /\ emitted'[Len(emitted')].event = "userOffline") =>
    LET u == emitted'[Len(emitted')].userId
    IN  /\ Cardinality(OpenSockets(u)) = 1
        /\ \A sid \in OpenSockets(u) : sockets'[sid].state = "closed"

\* C30: a user is online exactly when one of their sockets is connected,
\* userSockets never holds an empty set, connectedUsers maps exactly the
\* sockets held in userSockets, each to its user, and 'userOffline' is
\* broadcast only by the disconnect of the user's last connected socket.
C30_Presence == []Presence /\ [][OfflineOnlyByLastSocket]_vars

\* a user with two sockets lost one and stayed online, then another user
\* went offline by closing their only socket
C30_Witness ==
  /\ Cardinality(OpenSockets("m1")) = 1
  /\ \E sid \in SocketIds : sockets[sid] = [state |-> "closed", userId |-> "m1"]
  /\ isUserOnline("m1")
  /\ \E sid \in SocketIds : sockets[sid] = [state |-> "closed", userId |-> "m2"]
  /\ ~isUserOnline("m2")
  /\ emitted # <<>> /\ LastEmitted = [event |-> "userOffline", userId |-> "m2"]

(***************************************************************************)
(* Claims on the verifier under parallel threads                           *)
(***************************************************************************)
\* thread t returned from a call that presented the valid signature of the
\* signed message at instant i
ValidCallAt(t, i) ==
  /\ vt[t].pc = "done"
  /\ vt[t].req = FaithfulRequest(orig)
  /\ vt[t].at = i
  /\ vt[t].out \in {Accepted, Err(401, "Replay detected")}

\* C25: of two calls that present the same valid, unseen signature and whose
\* steps interleave, exactly one is accepted and the other is rejected as a
\* replay.
C25_OneAcceptedUnderParallelism ==
  \A t1, t2 \in Handlers :
    (t1 # t2 /\ ValidCallAt(t1, clock) /\ ValidCallAt(t2, clock)) =>
      ~(vt[t1].out = Accepted /\ vt[t2].out = Accepted)

(***************************************************************************)
(* Claims on refresh token rotation                                        *)
(***************************************************************************)
\* the refresh tokens issued by rotations of token id
Successors(id) == { j \in DOMAIN tokens : tokens[j].parent = id }

\* C23: refresh tokens are single-use: for any interleaving of refresh and
\* logout requests that present the same cookie, at most one of the refresh
\* requests is accepted, so at most one successor token is issued per
\* presented refresh token.
C23_SingleUse ==
  \A id \in DOMAIN tokens : Cardinality(Successors(id)) <= 1

(***************************************************************************)
(* Claims on registration while the event is edited or moderated           *)
(***************************************************************************)
\* a registration row is committed by this step
RegistrationCommitted == \E u \in Users : regs'[u] > regs[u]

WithinCapacity ==
  TypeofNumber(event.capacity) => RegistrationCount(regs) <= event.capacity[1]

CapacityEditKeepsRows ==
  (event'.capacity # event.capacity /\ TypeofNumber(event'.capacity)) =>
    RegistrationCount(regs) <= event'.capacity[1]

CapacityComparedIsCurrent ==
  RegistrationCommitted =>
    \E h \in Handlers :
      /\ hs[h].pc = "inserted" /\ hs'[h].pc = "done"
      /\ hs[h].ev.capacity = event.capacity

\* C26 (as claimed): under any interleaving of register requests with PUT
\* requests that change the event's capacity, the number of registration
\* rows never exceeds the event's current capacity, the capacity a
\* registration transaction compared is the event's capacity when it commits,
\* and no update sets the capacity below the current number of rows.
C26_CapacitySurvivesEdits ==
  []WithinCapacity /\ [][CapacityEditKeepsRows /\ CapacityComparedIsCurrent]_vars

\* C29 (as claimed): a registration row is committed only if the event exists
\* and its moderationStatus is APPROVED when the registration transaction
\* commits; a REJECT committed between the precondition read of register and
\* its transaction prevents the registration.
C29_NoRegistrationIntoClosedEvent ==
  [][RegistrationCommitted => (event.exists /\ event.moderationStatus = "APPROVED")]_vars

(***************************************************************************)
(* Claims on the edit gate of events                                       *)
(***************************************************************************)
EditOps == {"update", "delete"}

\* the caller may edit the event row ev: a caller whose only role is STUDENT
\* authored it and it is still pending review; any other caller holds a
\* privileged role; the row is in the caller's college
MayEdit(u, ev) ==
  /\ ev.exists
  /\ ev.collegeId = UserCollege(u)
  /\ IF RolesOf(u) = {"STUDENT"}
     THEN ev.authorId = u /\ ev.moderationStatus = "PENDING_REVIEW"
     ELSE RolesOf(u) \cap {"FACULTY", "DEPT_ADMIN", "HEAD_ADMIN"} # {}

\* the row an edit handler read when it passed the gate allowed the edit
GateHeld ==
  \A h \in Handlers :
    (/\ hs[h].op \in EditOps
     /\ \/ hs[h].pc = "allowed"
        \/ hs[h].pc = "done" /\ hs[h].res.status = 200)
    => MayEdit(hs[h].user, hs[h].ev)

\* an edit request on a row the caller may not edit is answered 403 or 404
\* and changes nothing
EditRejected ==
  \A h \in Handlers :
    (hs'[h] # hs[h] /\ started' = started + 1 /\ hs'[h].op \in EditOps) =>
      IF MayEdit(hs'[h].user, event)
      THEN hs'[h].pc = "allowed"
      ELSE /\ hs'[h].pc = "done" /\ hs'[h].res.status \in {403, 404}
           /\ event' = event /\ regs' = regs

\* the event's fields and its registrations change only by the write of an
\* edit that passed the gate
OnlyAllowedEditsWrite ==
  (\/ event'.title # event.title \/ event'.capacity # event.capacity
   \/ event'.exists # event.exists \/ regs' # regs)
  => \E h \in Handlers :
       /\ hs[h].op \in EditOps /\ hs[h].pc = "allowed" /\ hs'[h].pc = "done"
       /\ MayEdit(hs[h].user, hs[h].ev)

EventOutOfScope(u) == ~event.exists \/ event.collegeId # UserCollege(u)
ProjectOutOfScope(u) == ~project.exists \/ project.collegeId # CallerCollege(u)
ApplicationOutOfScope(u, s) == Len(apps[s]) = 0 \/ ProjectOutOfScope(u)

\* what a route answers a caller for an id that names no row: the role check
\* of the route comes first, then 404 with the route's message
MissingEvent(op, u) ==
  IF op = "moderate" /\ RolesOf(u) \cap {"DEPT_ADMIN", "HEAD_ADMIN"} = {}
  THEN Reply(403, "Forbidden")
  ELSE Reply(404, "Not found")

MissingProject(op, u) ==
  IF op = "apply"
  THEN IF "STUDENT" \in RolesOf(u) THEN Reply(404, "Project not found")
       ELSE Reply(403, "Forbidden")
  ELSE IF "FACULTY" \notin RolesOf(u) THEN Reply(403, "Forbidden")
  ELSE IF op = "decide" THEN Reply(404, "Application not found")
  ELSE Reply(404, "Not found")

EventScopeHidden ==
  \A h \in Handlers :
    (hs'[h] # hs[h] /\ started' = started + 1 /\ EventOutOfScope(hs'[h].user)) =>
      /\ hs'[h].pc = "done"
      /\ hs'[h].res = MissingEvent(hs'[h].op, hs'[h].user)
      /\ event' = event /\ regs' = regs

ProjectScopeHidden ==
  \A h \in Handlers :
    (/\ ps'[h] # ps[h] /\ pstarted' = pstarted + 1
     /\ IF ps'[h].op = "decide"
        THEN ApplicationOutOfScope(ps'[h].user, ps'[h].target)
        ELSE ProjectOutOfScope(ps'[h].user)) =>
      /\ ps'[h].pc = "done"
      /\ ps'[h].res = MissingProject(ps'[h].op, ps'[h].user)
      /\ project' = project /\ apps' = apps

\* C22: on every event and project route, a caller whose college differs from
\* the resource's college gets exactly the outcome of a request for an id that
\* names no row (404 with the route's message, after the route's role check),
\* whatever the fields of the resource, and the store is unchanged.
C22_ScopeHidden == [][EventScopeHidden /\ ProjectScopeHidden]_vars

\* an event of another college: the register, update and moderate requests of
\* callers of college c1 were answered as for a missing event
C22_Witness ==
  /\ event.exists /\ event.collegeId = "c2"
  /\ RegistrationCount(regs) = 0
  /\ \E h \in Handlers :
       hs[h].op = "register" /\ hs[h].pc = "done" /\ hs[h].res = Reply(404, "Not found")
  /\ \E h \in Handlers :
       hs[h].op = "moderate" /\ hs[h].user = "a1" /\ hs[h].res = Reply(404, "Not found")

====
